---- MODULE Spec2Model ----
(***************************************************************************)
(* QuizMate: the upload page (src/src/pages/Home.tsx), the quiz session    *)
(* (src/src/pages/Quiz.tsx), the application store                         *)
(* (src/src/store/useStore.ts) and the results statistics                  *)
(* (pages/Results.tsx).                                                    *)
(*                                                                         *)
(* Conventions                                                             *)
(*  - A JavaScript value of type `any` (null | number | boolean | array)   *)
(*    is a record [kind, num, bool, list]; === on primitives is record     *)
(*    equality.                                                            *)
(*  - A nullable store field is a set with at most one element.            *)
(*  - A missing topic is "" (`topic || 'General'` treats undefined and ""  *)
(*    alike).                                                              *)
(*  - The clock is read in units of half a second, so that                 *)
(*    Math.round(ms / 1000) is a real rounding.                            *)
(*  - The elapsed-time display of the quiz (a one-second interval timer)   *)
(*    feeds no handler and is left out.                                    *)
(*                                                                         *)
(* Specifications                                                          *)
(*  - Spec: the application over well-formed bundles, with a retake.       *)
(*  - SpecStats: the results statistics over longer answer lists.          *)
(*  - SpecClock: a quiz under a wall clock that may be set back.           *)
(*  - SpecContent: bundles as the service may return them, and a second    *)
(*    document.                                                            *)
(*  - SpecSession: one quiz session, from the upload to its completion.    *)
(*  - SpecUser: one session of a user who keeps clicking (fairness).       *)
(*  - SpecBank: the question bank of bundles with short-answer questions.  *)
(*  - SpecHome: the upload page with several dropped files.                *)
(***************************************************************************)
EXTENDS Integers, Sequences, FiniteSets

\* ------------------------------------------------------------------ bounds
NumOptions == 2
MaxCorrectLen == 2
MaxPerType == 1
MaxClock == 0
MaxUploads == 1
MaxSessions == 2
MaxStatQuestions == 5
MaxAbandoned == 1

Clock == 0..MaxClock
OptionIndices == 0..(NumOptions - 1)
TopicValues == {"", "Algebra"}

\* ------------------------------------------------------------ JS values
Null == [kind |-> "null", num |-> 0, bool |-> FALSE, list |-> <<>>]
Num(n) == [kind |-> "number", num |-> n, bool |-> FALSE, list |-> <<>>]
Bool(b) == [kind |-> "boolean", num |-> 0, bool |-> b, list |-> <<>>]
List(l) == [kind |-> "array", num |-> 0, bool |-> FALSE, list |-> l]
NaN == [kind |-> "NaN", num |-> 0, bool |-> FALSE, list |-> <<>>]

\* Number.prototype.toString for 0..99, as a sequence of characters.
Digit(d) == CASE d = 0 -> "0" [] d = 1 -> "1" [] d = 2 -> "2" [] d = 3 -> "3"
              [] d = 4 -> "4" [] d = 5 -> "5" [] d = 6 -> "6" [] d = 7 -> "7"
              [] d = 8 -> "8" [] OTHER -> "9"

NumberToString(n) == IF n < 10 THEN <<Digit(n)>> ELSE <<Digit(n \div 10), Digit(n % 10)>>

\* Order of the UTF-16 code units of the digits.
CharCode(c) == CASE c = "0" -> 48 [] c = "1" -> 49 [] c = "2" -> 50 [] c = "3" -> 51
                 [] c = "4" -> 52 [] c = "5" -> 53 [] c = "6" -> 54 [] c = "7" -> 55
                 [] c = "8" -> 56 [] c = "9" -> 57 [] c = "," -> 44 [] c = "[" -> 91
                 [] OTHER -> 93

RECURSIVE StrLess(_, _)
StrLess(s, t) ==
    IF t = <<>> THEN FALSE
    ELSE IF s = <<>> THEN TRUE
    ELSE IF CharCode(Head(s)) # CharCode(Head(t)) THEN CharCode(Head(s)) < CharCode(Head(t))
    ELSE StrLess(Tail(s), Tail(t))

\* Array.prototype.sort() without a comparator orders by the elements' strings.
RECURSIVE Insert(_, _)
Insert(x, sorted) ==
    IF sorted = <<>> THEN <<x>>
    ELSE IF StrLess(NumberToString(x), NumberToString(Head(sorted))) THEN <<x>> \o sorted
    ELSE <<Head(sorted)>> \o Insert(x, Tail(sorted))

RECURSIVE JsSort(_)
JsSort(arr) ==
    IF arr = <<>> THEN <<>>
    ELSE Insert(arr[Len(arr)], JsSort(SubSeq(arr, 1, Len(arr) - 1)))

\* JSON.stringify of an array of numbers, as a sequence of characters.
RECURSIVE JoinNumbers(_)
JoinNumbers(arr) ==
    IF arr = <<>> THEN <<>>
    ELSE IF Len(arr) = 1 THEN NumberToString(arr[1])
    ELSE NumberToString(arr[1]) \o <<",">> \o JoinNumbers(Tail(arr))

JSONStringify(arr) == <<"[">> \o JoinNumbers(arr) \o <<"]">>

\* Math.round(x / 2) for an integer x: the nearest integer, halves upwards.
RoundHalf(x) == (x + 1) \div 2

\* Math.round((a / b) * 100) for 0 <= a, 0 < b: the nearest integer of 100a/b.
\* 100a/b is a half-integer only when 8 divides b, and the double product is
\* within 1e-12 of it, so the value is exact for every bank of fewer than 8
\* questions; with more, a tie may round either way in floating point.
RoundPercent(a, b) == (200 * a + b) \div (2 * b)

\* ------------------------------------------------------ content bundles
SeqsUpTo(S, n) == UNION {[1..k -> S] : k \in 0..n}

CorrectAnswerLists == UNION {[1..k -> OptionIndices] : k \in 1..MaxCorrectLen}

\* A question's `options` array is kept by its length: the option texts feed
\* no handler.  The bundles of this set are well formed: NumOptions options
\* each, and correct indices among them.
MultipleChoiceQuestion ==
    [options : {NumOptions}, correct_answer : OptionIndices, topic : TopicValues]
MultiSelectQuestion ==
    [options : {NumOptions}, correct_answers : CorrectAnswerLists, topic : TopicValues]
TrueFalseQuestion == [correct_answer : BOOLEAN, topic : TopicValues]

ProcessedContent ==
    [multiple_choice_questions : SeqsUpTo(MultipleChoiceQuestion, MaxPerType),
     multi_select_questions : SeqsUpTo(MultiSelectQuestion, MaxPerType),
     true_false_questions : SeqsUpTo(TrueFalseQuestion, MaxPerType)]

VARIABLES
    processedContent,   \* store: {} or {bundle}
    quizState,          \* store: {} or {QuizState}
    page,               \* the route that is mounted
    currentIndex,       \* Quiz component state
    selectedAnswer,
    selectedAnswers,
    showFeedback,
    answers,
    startTime,
    questionStartTime,
    correctStreak,
    statistics,         \* Results component: the memoised statistics, {} or {record}
    performanceAnalysis, \* Results component state: {} or {analysis}
    isSubmitting,       \* Results component state
    abandonedRequests,  \* submitQuiz calls in flight whose Results component is unmounted
    requestAbandoned,   \* a submitQuiz call for the stored quizState was left in flight
    selectedFile,       \* Home component state: {} or {file}
    documentPreview,    \* store: {} or {the file that the stored preview is of}
    previewRequests,    \* files whose previewDocument call is in flight
    drops,              \* number of files dropped so far
    uploads,            \* number of documents processed so far
    sessions,           \* number of Quiz components mounted so far
    completions         \* number of setQuizState calls of the mounted Quiz component

vars == <<processedContent, quizState, page, currentIndex, selectedAnswer,
          selectedAnswers, showFeedback, answers, startTime, questionStartTime,
          correctStreak, statistics, performanceAnalysis, isSubmitting,
          abandonedRequests, requestAbandoned, selectedFile, documentPreview,
          previewRequests, drops, uploads, sessions, completions>>

quizVars == <<currentIndex, selectedAnswer, selectedAnswers, showFeedback, answers,
              startTime, questionStartTime, correctStreak>>

counters == <<uploads, sessions>>

analysisVars == <<performanceAnalysis, isSubmitting, abandonedRequests, requestAbandoned>>

homeVars == <<selectedFile, documentPreview, previewRequests, drops>>

\* The merged question sequence of a bundle: {type, data, index} for each
\* question, with the fields of `data` that the handlers read beside it.
MapMC(qs) == [i \in 1..Len(qs) |->
    [type |-> "multiple_choice", data |-> qs[i], correct |-> Num(qs[i].correct_answer),
     options |-> qs[i].options, topic |-> qs[i].topic, index |-> i - 1]]

MapMS(qs) == [i \in 1..Len(qs) |->
    [type |-> "multi_select", data |-> qs[i], correct |-> List(qs[i].correct_answers),
     options |-> qs[i].options, topic |-> qs[i].topic, index |-> i - 1]]

MapTF(qs) == [i \in 1..Len(qs) |->
    [type |-> "true_false", data |-> qs[i], correct |-> Bool(qs[i].correct_answer),
     options |-> 0, topic |-> qs[i].topic, index |-> i - 1]]

\* Variant: the true/false questions come first.
AllQuestionsTrueFalseFirst(content) ==
    MapTF(content.true_false_questions)
      \o MapMC(content.multiple_choice_questions)
      \o MapMS(content.multi_select_questions)

AllQuestionsOf(content) ==
    MapMC(content.multiple_choice_questions)
      \o MapMS(content.multi_select_questions)
      \o MapTF(content.true_false_questions)

allQuestions ==
    IF processedContent = {} THEN <<>>
    ELSE AllQuestionsOf(CHOOSE c \in processedContent : TRUE)

\* Variant: the question card is rendered for any bundle.
QuizRenderedWithoutQuestions == page = "quiz" /\ processedContent # {}

\* The Quiz page renders the question card only with a non-empty bank.
QuizRendered == page = "quiz" /\ processedContent # {} /\ Len(allQuestions) # 0

currentQuestion == allQuestions[currentIndex + 1]

\* ------------------------------------------------- Results: statistics
\* Property names every object inherits from Object.prototype: obj[key] is
\* truthy for them although the object has no such entry of its own.
ObjectPrototypeKeys ==
    {"constructor", "__proto__", "toString", "valueOf", "hasOwnProperty",
     "isPrototypeOf", "propertyIsEnumerable", "toLocaleString"}

\* The value of a key that is a canonical array index, -1 for any other key.
\* Object.entries lists such keys first, in ascending numeric order.
IntegerKey(key) == CASE key = "0" -> 0 [] key = "1" -> 1 [] key = "2" -> 2
                     [] key = "3" -> 3 [] OTHER -> -1

HasOwn(entries, key) == \E i \in 1..Len(entries) : entries[i].topic = key

\* The position at which a new key appears in Object.entries.
RECURSIVE InsertEntry(_, _)
InsertEntry(entries, e) ==
    IF entries = <<>> THEN <<e>>
    ELSE IF IntegerKey(e.topic) >= 0
              /\ (IntegerKey(Head(entries).topic) < 0
                    \/ IntegerKey(Head(entries).topic) > IntegerKey(e.topic))
      THEN <<e>> \o entries
    ELSE <<Head(entries)>> \o InsertEntry(Tail(entries), e)

\* const topic = question?.topic || 'General'
TopicOf(questions, idx) ==
    IF idx <= Len(questions) /\ questions[idx].topic # ""
      THEN questions[idx].topic
      ELSE "General"

\* One iteration of quizState.answers.forEach.
CountAnswer(entries, topic, answer) ==
    IF ~HasOwn(entries, topic) /\ topic \in ObjectPrototypeKeys
      THEN entries   \* the increments land on the inherited value
      ELSE LET present == IF HasOwn(entries, topic) THEN entries
                          ELSE InsertEntry(entries, [topic |-> topic, correct |-> 0, total |-> 0])
           IN [i \in 1..Len(present) |->
                 IF present[i].topic = topic
                   THEN [topic |-> topic,
                         correct |-> present[i].correct + (IF answer.isCorrect THEN 1 ELSE 0),
                         total |-> present[i].total + 1]
                   ELSE present[i]]

\* topicPerformance after the first k answers, as Object.entries lists it.
\* The object after k - 1 answers is bound as one value, so that it is
\* computed once for the iteration that reads it.
RECURSIVE TopicPerformance(_, _, _)
TopicPerformance(list, questions, k) ==
    IF k = 0 THEN <<>>
    ELSE CHOOSE after \in {CountAnswer(before, TopicOf(questions, k), list[k]) :
                             before \in {TopicPerformance(list, questions, k - 1)}} : TRUE

\* Variant: the threshold itself counts as weak.
AtMostSixtyPercent(perf) == 5 * perf.correct <= 3 * perf.total

\* (perf.correct / perf.total) < 0.6 on doubles.  The division is correctly
\* rounded and 0.6 is the double nearest to 3/5, so for total < 2^50 the test
\* is true exactly when correct / total < 3 / 5.
BelowSixtyPercent(perf) == 5 * perf.correct < 3 * perf.total

WeakTopics(entries) ==
    LET weak == SelectSeq(entries, BelowSixtyPercent)
    IN [i \in 1..Len(weak) |-> weak[i].topic]

RECURSIVE SumTimeTaken(_)
SumTimeTaken(list) ==
    IF list = <<>> THEN 0 ELSE list[1].timeTaken + SumTimeTaken(Tail(list))

CountCorrect(list) == Cardinality({i \in 1..Len(list) : list[i].isCorrect})

\* accuracy is the double (correctAnswers / totalQuestions) * 100, kept here
\* as the exact fraction num / den.
Accuracy(list) ==
    IF Len(list) > 0 THEN [num |-> 100 * CountCorrect(list), den |-> Len(list)]
    ELSE [num |-> 0, den |-> 1]

\* The question list that the statistics index by answer position.
ResultsQuestions(content) ==
    content.multiple_choice_questions
      \o content.multi_select_questions
      \o content.true_false_questions

Statistics(state, content) ==
    LET entries == TopicPerformance(state.answers, ResultsQuestions(content), Len(state.answers))
    IN [accuracy |-> Accuracy(state.answers),
        totalTimeTaken |-> SumTimeTaken(state.answers),
        topicPerformance |-> entries,
        weakTopics |-> WeakTopics(entries)]

\* useMemo(..., [quizState, processedContent]) of a mounted Results page.
UseMemoStatistics(stateOpt, contentOpt) ==
    IF stateOpt = {} \/ contentOpt = {} THEN {}
    ELSE {Statistics(st, c) : st \in stateOpt, c \in contentOpt}

\* const score = Math.round(statistics.accuracy)
DisplayedScore(stats) == (2 * stats.accuracy.num + stats.accuracy.den) \div (2 * stats.accuracy.den)

\* The "Avg Time" card: Math.round(statistics.totalTimeTaken / totalQuestions),
\* which is NaN for 0 / 0.
AverageTime(stats, state) ==
    IF Len(state.answers) = 0 THEN NaN
    ELSE Num((2 * stats.totalTimeTaken + Len(state.answers)) \div (2 * Len(state.answers)))

\* ------------------------------------- Results: the performance analysis
\* What the recommendation service may answer (PerformanceAnalysis, by two of
\* its fields).
AnalysisValues ==
    {[overall_score |-> 0, next_difficulty |-> "easy"],
     [overall_score |-> 100, next_difficulty |-> "hard"]}

\* submitQuizResults goes on past its first line.
SubmitQuizResultsGuard(stateOpt, contentOpt, statsOpt, analysisOpt) ==
    ~(stateOpt = {} \/ contentOpt = {} \/ statsOpt = {} \/ analysisOpt # {})

\* A Results component mounts: its state is initialised and its effect runs
\* submitQuizResults up to `await submitQuiz(attempt)`.
MountResults(stateOpt, contentOpt, statsOpt) ==
    /\ performanceAnalysis' = {}
    /\ isSubmitting' = SubmitQuizResultsGuard(stateOpt, contentOpt, statsOpt, {})
    /\ abandonedRequests' = abandonedRequests

\* The Results component, if mounted, unmounts.  Nothing cancels a request in
\* flight: it stays in flight without a component.
UnmountResults ==
    /\ isSubmitting => abandonedRequests < MaxAbandoned
    /\ performanceAnalysis' = {}
    /\ isSubmitting' = FALSE
    /\ abandonedRequests' = abandonedRequests + (IF isSubmitting THEN 1 ELSE 0)

\* What the analysis part of the results page shows.
AnalysisSection(analysisOpt, submitting) ==
    (IF analysisOpt # {} THEN {"PerformanceAnalytics"} ELSE {})
      \cup (IF submitting THEN {"Analyzing your performance..."} ELSE {})

\* ---------------------------------------------------------------- store
Init ==
    /\ processedContent = {}
    /\ quizState = {}
    /\ page = "home"
    /\ currentIndex = 0
    /\ selectedAnswer = Null
    /\ selectedAnswers = <<>>
    /\ showFeedback = FALSE
    /\ answers = <<>>
    /\ startTime = 0
    /\ questionStartTime = 0
    /\ correctStreak = 0
    /\ statistics = {}
    /\ performanceAnalysis = {}
    /\ isSubmitting = FALSE
    /\ abandonedRequests = 0
    /\ requestAbandoned = FALSE
    /\ selectedFile = {}
    /\ documentPreview = {}
    /\ previewRequests = {}
    /\ drops = 0
    /\ uploads = 0
    /\ sessions = 0
    /\ completions = 0

\* useState initialisers of a freshly mounted Quiz component.
MountQuiz(now) ==
    /\ currentIndex' = 0
    /\ selectedAnswer' = Null
    /\ selectedAnswers' = <<>>
    /\ showFeedback' = FALSE
    /\ answers' = <<>>
    /\ startTime' = now
    /\ questionStartTime' = now
    /\ correctStreak' = 0
    /\ completions' = 0

\* The state of an unmounted component does not exist.
UnmountQuiz ==
    /\ currentIndex' = 0
    /\ selectedAnswer' = Null
    /\ selectedAnswers' = <<>>
    /\ showFeedback' = FALSE
    /\ answers' = <<>>
    /\ startTime' = 0
    /\ questionStartTime' = 0
    /\ correctStreak' = 0

\* ---------------------------------------------------------------- Home.tsx
\* A dropped file is known by its number in the order of the drops; a preview
\* is known by the file it is of.  The error message of the page feeds no
\* handler and is left out.

\* onDrop up to `await previewDocument(file)`: the file becomes the selected
\* file and its preview is requested.  The drop zone is disabled only while a
\* document is being processed.  `limit` caps the number of drops.
OnDrop(limit) ==
    /\ page = "home"
    /\ drops < limit
    /\ selectedFile' = {drops + 1}
    /\ previewRequests' = previewRequests \cup {drops + 1}
    /\ drops' = drops + 1
    /\ UNCHANGED <<processedContent, quizState, page, quizVars, statistics,
                   analysisVars, documentPreview, counters, completions>>

\* previewDocument(file) resolves: setDocumentPreview(preview) writes the store,
\* whichever file is selected by now and whichever page is open.
PreviewResolved(file) ==
    /\ file \in previewRequests
    /\ documentPreview' = {file}
    /\ previewRequests' = previewRequests \ {file}
    /\ UNCHANGED <<processedContent, quizState, page, quizVars, statistics,
                   analysisVars, selectedFile, drops, counters, completions>>

\* previewDocument(file) rejects: the catch block sets the error message.
PreviewFailed(file) ==
    /\ file \in previewRequests
    /\ previewRequests' = previewRequests \ {file}
    /\ UNCHANGED <<processedContent, quizState, page, quizVars, statistics,
                   analysisVars, selectedFile, documentPreview, drops, counters,
                   completions>>

\* The preview card, with the Generate button in it, is rendered for a stored
\* preview.
GenerateButtonRendered == documentPreview # {}

\* The X button of the preview card.
ClearPreview ==
    /\ page = "home"
    /\ documentPreview # {}
    /\ documentPreview' = {}
    /\ selectedFile' = {}
    /\ UNCHANGED <<processedContent, quizState, page, quizVars, statistics,
                   analysisVars, previewRequests, drops, counters, completions>>

\* Home.handleGenerateQuiz: the processed document is stored and the quiz
\* opens.  `results` are the bundles the service may return, `limit` caps the
\* number of documents.
GenerateQuiz(results, limit) ==
    /\ page = "home"
    /\ GenerateButtonRendered
    /\ selectedFile # {}
    /\ uploads < limit
    /\ sessions < MaxSessions
    /\ \E result \in results, now \in Clock :
         /\ processedContent' = {result}
         /\ MountQuiz(now)
    /\ page' = "quiz"
    /\ uploads' = uploads + 1
    /\ sessions' = sessions + 1
    /\ selectedFile' = {}
    /\ UNCHANGED <<quizState, statistics, analysisVars, documentPreview,
                   previewRequests, drops>>

HandleGenerateQuiz == GenerateQuiz(ProcessedContent, MaxUploads)

\* Layout link to /quiz.  Without content the Quiz page redirects to '/' at once.
NavigateToQuiz ==
    /\ page # "quiz"
    /\ processedContent # {}
    /\ sessions < MaxSessions
    /\ page' = "quiz"
    /\ \E now \in Clock : MountQuiz(now)
    /\ sessions' = sessions + 1
    /\ statistics' = {}
    /\ UnmountResults
    /\ requestAbandoned' = (requestAbandoned \/ isSubmitting)
    /\ selectedFile' = {}
    /\ UNCHANGED <<processedContent, quizState, uploads, documentPreview,
                   previewRequests, drops>>

\* Layout links to the other pages.
NavigateTo(target) ==
    /\ page # target
    /\ page' = target
    /\ UnmountQuiz
    /\ statistics' = IF target = "results"
                       THEN UseMemoStatistics(quizState, processedContent) ELSE {}
    /\ IF target = "results"
         THEN MountResults(quizState, processedContent, statistics')
         ELSE UnmountResults
    /\ requestAbandoned' = (requestAbandoned \/ isSubmitting)
    /\ selectedFile' = {}
    /\ UNCHANGED <<processedContent, quizState, counters, completions,
                   documentPreview, previewRequests, drops>>

\* Results "New Document" button: resetState() and navigate('/').
ResetState ==
    /\ page = "results"
    /\ statistics # {}
    /\ processedContent' = {}
    /\ quizState' = {}
    /\ page' = "home"
    /\ statistics' = {}
    /\ UnmountResults
    /\ requestAbandoned' = FALSE
    /\ selectedFile' = {}
    /\ documentPreview' = {}
    /\ UNCHANGED <<quizVars, counters, completions, previewRequests, drops>>

\* Variant: the score of the service's answer replaces the stored score.
ReceiveAnalysisIntoScore(analysis) ==
    /\ page = "results"
    /\ isSubmitting
    /\ performanceAnalysis' = {analysis}
    /\ isSubmitting' = FALSE
    /\ quizState' = {[q EXCEPT !.score = analysis.overall_score] : q \in quizState}
    /\ UNCHANGED <<homeVars, processedContent, page, quizVars, statistics,
                   abandonedRequests, requestAbandoned, counters, completions>>

\* `await submitQuiz(attempt)` resolves in the mounted Results component:
\* setPerformanceAnalysis(analysis), then setIsSubmitting(false).  The effect
\* runs again and returns at its guard.
ReceiveAnalysis(analysis) ==
    /\ page = "results"
    /\ isSubmitting
    /\ performanceAnalysis' = {analysis}
    /\ isSubmitting' = FALSE
    /\ UNCHANGED <<homeVars, processedContent, quizState, page, quizVars, statistics,
                   abandonedRequests, requestAbandoned, counters, completions>>

\* The call rejects: the catch block logs, the finally block clears the flag.
AnalysisFailed ==
    /\ page = "results"
    /\ isSubmitting
    /\ isSubmitting' = FALSE
    /\ UNCHANGED <<homeVars, processedContent, quizState, page, quizVars, statistics,
                   performanceAnalysis, abandonedRequests, requestAbandoned,
                   counters, completions>>

\* A request whose component is gone resolves or rejects: the state setters of
\* an unmounted component do nothing.
SettleAbandoned ==
    /\ abandonedRequests > 0
    /\ abandonedRequests' = abandonedRequests - 1
    /\ UNCHANGED <<homeVars, processedContent, quizState, page, quizVars, statistics,
                   performanceAnalysis, isSubmitting, requestAbandoned,
                   counters, completions>>

\* --------------------------------------------------------------- Quiz.tsx
\* Variant: a button exists for an index the question has no option for.
OptionAlwaysRendered(question, index) == TRUE

\* question.options.map((option, index) => <button ...>): one button per option.
OptionRendered(question, index) == index < question.options

\* Variant: the option buttons stay live while the feedback is shown.
SelectOptionDuringFeedback(index) ==
    /\ QuizRendered
    /\ currentQuestion.type = "multiple_choice"
    /\ OptionRendered(currentQuestion, index)
    /\ selectedAnswer' = Num(index)
    /\ UNCHANGED <<homeVars, processedContent, quizState, page, currentIndex, selectedAnswers,
                   showFeedback, answers, startTime, questionStartTime, correctStreak,
                   statistics, analysisVars, counters, completions>>

\* Option button of a multiple-choice question.
SelectOption(index) ==
    /\ QuizRendered
    /\ currentQuestion.type = "multiple_choice"
    /\ OptionRendered(currentQuestion, index)
    /\ ~showFeedback
    /\ selectedAnswer' = Num(index)
    /\ UNCHANGED <<homeVars, processedContent, quizState, page, currentIndex, selectedAnswers,
                   showFeedback, answers, startTime, questionStartTime, correctStreak,
                   statistics, analysisVars, counters, completions>>

\* True / False button.
SelectBoolean(value) ==
    /\ QuizRendered
    /\ currentQuestion.type = "true_false"
    /\ ~showFeedback
    /\ selectedAnswer' = Bool(value)
    /\ UNCHANGED <<homeVars, processedContent, quizState, page, currentIndex, selectedAnswers,
                   showFeedback, answers, startTime, questionStartTime, correctStreak,
                   statistics, analysisVars, counters, completions>>

Includes(arr, x) == \E i \in 1..Len(arr) : arr[i] = x

Filter(arr, x) == SelectSeq(arr, LAMBDA e : e # x)

\* The updater of handleMultiSelectToggle.
Toggle(prev, index) ==
    IF Includes(prev, index) THEN Filter(prev, index) ELSE Append(prev, index)

HandleMultiSelectToggle(index) ==
    /\ QuizRendered
    /\ currentQuestion.type = "multi_select"
    /\ OptionRendered(currentQuestion, index)
    /\ ~showFeedback
    /\ selectedAnswers' = Toggle(selectedAnswers, index)
    /\ UNCHANGED <<homeVars, processedContent, quizState, page, currentIndex, selectedAnswer,
                   showFeedback, answers, startTime, questionStartTime, correctStreak,
                   statistics, analysisVars, counters, completions>>

\* Variant: the submit button stays on screen while the feedback is shown.
SubmitButtonAlwaysRendered == TRUE

\* Variant: the next button is on screen before the answer is submitted.
NextButtonAlwaysRendered == TRUE

\* Navigation row: "Submit Answer" is rendered until the feedback is shown,
\* then the "Next Question" / "View Results" button takes its place.
SubmitButtonRendered == ~showFeedback

SubmitButtonDisabled ==
    IF currentQuestion.type = "multi_select"
      THEN Len(selectedAnswers) = 0
      ELSE selectedAnswer = Null

NextButtonRendered == showFeedback

\* Variant: the selected option is compared as a position counted from one.
IsCorrectOneBased(question, answer, multiAnswers) ==
    IF question.type = "multiple_choice"
      THEN answer.kind = "number" /\ Num(answer.num + 1) = question.correct
    ELSE IF question.type = "multi_select"
      THEN JSONStringify(JsSort(question.correct.list)) = JSONStringify(JsSort(multiAnswers))
    ELSE answer = question.correct

\* The correctness test of handleAnswer.
IsCorrect(question, answer, multiAnswers) ==
    IF question.type = "multiple_choice" THEN answer = question.correct
    ELSE IF question.type = "multi_select"
      THEN JSONStringify(JsSort(question.correct.list)) = JSONStringify(JsSort(multiAnswers))
    ELSE answer = question.correct

\* correct_answers.sort() sorts the array of the bundle in place.
SortCorrectAnswers(content, question) ==
    IF question.type = "multi_select"
      THEN [content EXCEPT
              !.multi_select_questions[question.index + 1].correct_answers = JsSort(@)]
      ELSE content

\* selectedAnswers.sort() sorts the state array in place.
SortSelectedAnswers(question, multiAnswers) ==
    IF question.type = "multi_select" THEN JsSort(multiAnswers) ELSE multiAnswers

\* Variant: an incorrect answer leaves the streak standing.
NextStreakNoReset(streak, isCorrect) == IF isCorrect THEN streak + 1 ELSE streak

NextStreak(streak, isCorrect) == IF isCorrect THEN streak + 1 ELSE 0

HandleAnswer(now) ==
    /\ ~(currentQuestion.type = "multi_select" /\ Len(selectedAnswers) = 0)
    /\ ~(currentQuestion.type # "multi_select" /\ selectedAnswer = Null)
    /\ LET timeTaken == RoundHalf(now - questionStartTime)
           isCorrect == IsCorrect(currentQuestion, selectedAnswer, selectedAnswers)
           sortedAnswers == SortSelectedAnswers(currentQuestion, selectedAnswers)
           answerToCheck == IF currentQuestion.type = "multi_select"
                              THEN List(sortedAnswers) ELSE selectedAnswer
           newAnswer == [questionIndex |-> currentIndex,
                         questionType |-> currentQuestion.type,
                         userAnswer |-> answerToCheck,
                         isCorrect |-> isCorrect,
                         timeTaken |-> timeTaken]
       IN /\ processedContent' =
               {SortCorrectAnswers(c, currentQuestion) : c \in processedContent}
          /\ selectedAnswers' = sortedAnswers
          /\ correctStreak' = NextStreak(correctStreak, isCorrect)
          /\ answers' = Append(answers, newAnswer)
          /\ showFeedback' = TRUE
    /\ UNCHANGED <<homeVars, quizState, page, currentIndex, selectedAnswer, startTime,
                   questionStartTime, statistics, analysisVars, counters, completions>>

\* The correct count of the completion branch of handleNext.
CompletionCorrectCount(list) ==
    CountCorrect(list) + (IF Len(list) > 0 /\ list[Len(list)].isCorrect THEN 1 ELSE 0)

\* Variant: the completion branch stores the result but stays on the quiz page.
HandleNextStay(now) ==
    IF currentIndex < Len(allQuestions) - 1
      THEN /\ currentIndex' = currentIndex + 1
           /\ selectedAnswer' = Null
           /\ selectedAnswers' = <<>>
           /\ showFeedback' = FALSE
           /\ questionStartTime' = now
           /\ UNCHANGED <<homeVars, processedContent, quizState, page, answers, startTime,
                          correctStreak, statistics, analysisVars, counters, completions>>
      ELSE /\ quizState' =
                {[currentQuestion |-> currentIndex,
                  answers |-> answers,
                  startTime |-> startTime,
                  endTime |-> now,
                  score |-> RoundPercent(CompletionCorrectCount(answers), Len(allQuestions)),
                  showFeedback |-> TRUE]}
           /\ completions' = completions + 1
           /\ requestAbandoned' = FALSE
           /\ UNCHANGED <<homeVars, processedContent, page, quizVars, statistics, counters,
                          performanceAnalysis, isSubmitting, abandonedRequests>>

HandleNext(now) ==
    IF currentIndex < Len(allQuestions) - 1
      THEN /\ currentIndex' = currentIndex + 1
           /\ selectedAnswer' = Null
           /\ selectedAnswers' = <<>>
           /\ showFeedback' = FALSE
           /\ questionStartTime' = now
           /\ UNCHANGED <<homeVars, processedContent, quizState, page, answers, startTime,
                          correctStreak, statistics, analysisVars, counters, completions>>
      ELSE /\ quizState' =
                {[currentQuestion |-> currentIndex,
                  answers |-> answers,
                  startTime |-> startTime,
                  endTime |-> now,
                  score |-> RoundPercent(CompletionCorrectCount(answers), Len(allQuestions)),
                  showFeedback |-> TRUE]}
           /\ completions' = completions + 1
           /\ page' = "results"
           /\ UnmountQuiz
           /\ statistics' = UseMemoStatistics(quizState', processedContent)
           /\ MountResults(quizState', processedContent, statistics')
           /\ requestAbandoned' = FALSE
           /\ UNCHANGED <<homeVars, processedContent, counters>>

\* A click on "Submit Answer" when Date.now() reads one of `readings`.
ClickSubmitAt(readings) ==
    /\ QuizRendered
    /\ SubmitButtonRendered
    /\ ~SubmitButtonDisabled
    /\ \E now \in readings : HandleAnswer(now)

\* A click on "Next Question" / "View Results".
ClickNextAt(readings) ==
    /\ QuizRendered
    /\ NextButtonRendered
    /\ \E now \in readings : HandleNext(now)

ClickSubmit == ClickSubmitAt(Clock)

ClickNext == ClickNextAt(Clock)

Next ==
    \/ OnDrop(MaxUploads)
    \/ \E file \in previewRequests : PreviewResolved(file)
    \/ \E file \in previewRequests : PreviewFailed(file)
    \/ ClearPreview
    \/ HandleGenerateQuiz
    \/ NavigateToQuiz
    \/ \E target \in {"home", "results"} : NavigateTo(target)
    \/ ResetState
    \/ \E index \in OptionIndices : SelectOption(index)
    \/ \E value \in BOOLEAN : SelectBoolean(value)
    \/ \E index \in OptionIndices : HandleMultiSelectToggle(index)
    \/ ClickSubmit
    \/ ClickNext
    \/ \E analysis \in AnalysisValues : ReceiveAnalysis(analysis)
    \/ AnalysisFailed
    \/ SettleAbandoned

Spec == Init /\ [][Next]_vars

\* ------------------------------------------------------------------------
\* The statistics over longer answer lists: the store holds a completed quiz
\* over a bundle of up to MaxStatQuestions multiple-choice questions whose
\* correct option is 0 and whose topics are drawn from StatTopics, each
\* answered with option 0 or 1; the Results page is then opened.
StatTopics == {"", "Algebra", "2", "constructor"}

StatContent ==
    {[multiple_choice_questions |-> [i \in 1..Len(topics) |->
                                        [options |-> NumOptions, correct_answer |-> 0, topic |-> topics[i]]],
      multi_select_questions |-> <<>>,
      true_false_questions |-> <<>>] :
        topics \in UNION {[1..k -> StatTopics] : k \in 1..MaxStatQuestions}}

\* The record a session over `content` stores when option selections[i] is
\* submitted for question i and every clock reading is 0.
CompletedQuiz(content, selections) ==
    LET questions == AllQuestionsOf(content)
        list == [i \in 1..Len(questions) |->
                   [questionIndex |-> i - 1,
                    questionType |-> questions[i].type,
                    userAnswer |-> Num(selections[i]),
                    isCorrect |-> IsCorrect(questions[i], Num(selections[i]), <<>>),
                    timeTaken |-> 0]]
    IN [currentQuestion |-> Len(questions) - 1,
        answers |-> list,
        startTime |-> 0,
        endTime |-> 0,
        score |-> RoundPercent(CompletionCorrectCount(list), Len(questions)),
        showFeedback |-> TRUE]

InitStats ==
    /\ \E content \in StatContent :
         \E selections \in [1..Len(content.multiple_choice_questions) -> {0, 1}] :
           /\ processedContent = {content}
           /\ quizState = {CompletedQuiz(content, selections)}
    /\ page = "home"
    /\ currentIndex = 0
    /\ selectedAnswer = Null
    /\ selectedAnswers = <<>>
    /\ showFeedback = FALSE
    /\ answers = <<>>
    /\ startTime = 0
    /\ questionStartTime = 0
    /\ correctStreak = 0
    /\ statistics = {}
    /\ performanceAnalysis = {}
    /\ isSubmitting = FALSE
    /\ abandonedRequests = 0
    /\ requestAbandoned = FALSE
    /\ selectedFile = {}
    /\ documentPreview = {1}
    /\ previewRequests = {}
    /\ drops = 1
    /\ uploads = 1
    /\ sessions = 1
    /\ completions = 1

NextStats ==
    \/ \E target \in {"home", "results"} : NavigateTo(target)
    \/ ResetState

SpecStats == InitStats /\ [][NextStats]_vars

\* ------------------------------------------------------------------------
\* The wall clock: Date.now() is not monotonic (the system time can be set
\* back between two readings).  A quiz over a bundle of true/false questions
\* is mounted and every handler reads the clock anywhere in WallClock.
MaxWallClock == 2

WallClock == 0..MaxWallClock

TimedContent ==
    {[multiple_choice_questions |-> <<>>,
      multi_select_questions |-> <<>>,
      true_false_questions |-> [i \in 1..k |-> [correct_answer |-> TRUE, topic |-> ""]]] :
        k \in 1..2}

InitClock ==
    /\ \E content \in TimedContent : processedContent = {content}
    /\ quizState = {}
    /\ page = "quiz"
    /\ currentIndex = 0
    /\ selectedAnswer = Null
    /\ selectedAnswers = <<>>
    /\ showFeedback = FALSE
    /\ answers = <<>>
    /\ \E now \in WallClock : startTime = now /\ questionStartTime = now
    /\ correctStreak = 0
    /\ statistics = {}
    /\ performanceAnalysis = {}
    /\ isSubmitting = FALSE
    /\ abandonedRequests = 0
    /\ requestAbandoned = FALSE
    /\ selectedFile = {}
    /\ documentPreview = {1}
    /\ previewRequests = {}
    /\ drops = 1
    /\ uploads = 1
    /\ sessions = 1
    /\ completions = 0

NextClock ==
    \/ \E value \in BOOLEAN : SelectBoolean(value)
    \/ ClickSubmitAt(WallClock)
    \/ ClickNextAt(WallClock)
    \/ \E target \in {"home", "results"} : NavigateTo(target)

SpecClock == InitClock /\ [][NextClock]_vars

\* ------------------------------------------------------------------------
\* Bundles as the processing service may return them: the response is stored
\* as it arrives, so a question may have any number of options, also none,
\* and correct indices that no option has.  A document is processed, its quiz
\* is taken, and a second document may follow.
MaxDocuments == 2

ServedMultipleChoice ==
    [options : 0..NumOptions, correct_answer : OptionIndices, topic : TopicValues]

ServedMultiSelect ==
    [options : 0..NumOptions, correct_answers : CorrectAnswerLists, topic : TopicValues]

ServedContent ==
    {[multiple_choice_questions |-> <<q>>,
      multi_select_questions |-> <<>>,
      true_false_questions |-> <<>>] : q \in ServedMultipleChoice}
    \cup
    {[multiple_choice_questions |-> <<>>,
      multi_select_questions |-> <<q>>,
      true_false_questions |-> <<>>] : q \in ServedMultiSelect}

NextContent ==
    \/ OnDrop(MaxDocuments)
    \/ \E file \in previewRequests : PreviewResolved(file)
    \/ \E file \in previewRequests : PreviewFailed(file)
    \/ ClearPreview
    \/ GenerateQuiz(ServedContent, MaxDocuments)
    \/ NavigateToQuiz
    \/ \E target \in {"home", "results"} : NavigateTo(target)
    \/ ResetState
    \/ \E index \in 0..NumOptions : SelectOption(index)
    \/ \E index \in 0..NumOptions : HandleMultiSelectToggle(index)
    \/ ClickSubmit
    \/ ClickNext
    \/ \E analysis \in AnalysisValues : ReceiveAnalysis(analysis)
    \/ AnalysisFailed
    \/ SettleAbandoned

SpecContent == Init /\ [][NextContent]_vars

\* ------------------------------------------------------------------------
\* One quiz session: a document is processed and the Quiz component that the
\* upload mounts is used until its completing advance unmounts it.
NextSession ==
    \/ OnDrop(MaxUploads)
    \/ \E file \in previewRequests : PreviewResolved(file)
    \/ HandleGenerateQuiz
    \/ \E index \in OptionIndices : SelectOption(index)
    \/ \E value \in BOOLEAN : SelectBoolean(value)
    \/ \E index \in OptionIndices : HandleMultiSelectToggle(index)
    \/ ClickSubmit
    \/ ClickNext

SpecSession == Init /\ [][NextSession]_vars

\* The session of a user who keeps going: whenever a button of the question
\* card can be clicked, the user eventually clicks one of its kind.  A Submit
\* button that a changing multi-select selection disables and enables again is
\* clicked at some point when it is enabled.
SelectAny ==
    \/ \E index \in OptionIndices : SelectOption(index)
    \/ \E value \in BOOLEAN : SelectBoolean(value)
    \/ \E index \in OptionIndices : HandleMultiSelectToggle(index)

\* The topics of the questions play no part in the session before its
\* completion, so the user's bundles carry none.
UserContent ==
    {content \in ProcessedContent :
       /\ \A i \in 1..Len(content.multiple_choice_questions) :
            content.multiple_choice_questions[i].topic = ""
       /\ \A i \in 1..Len(content.multi_select_questions) :
            content.multi_select_questions[i].topic = ""
       /\ \A i \in 1..Len(content.true_false_questions) :
            content.true_false_questions[i].topic = ""}

NextUser ==
    \/ OnDrop(MaxUploads)
    \/ \E file \in previewRequests : PreviewResolved(file)
    \/ GenerateQuiz(UserContent, MaxUploads)
    \/ SelectAny
    \/ ClickSubmit
    \/ ClickNext

SpecUser ==
    /\ Init
    /\ [][NextUser]_vars
    /\ WF_vars(SelectAny)
    /\ SF_vars(ClickSubmit)
    /\ WF_vars(ClickNext)

\* ------------------------------------------------------------------------
\* The question bank: the store holds a bundle of up to MaxBank questions of
\* each kind, short-answer questions among them, and its quiz is open.  A
\* question is told from the others by its text, here its kind and number.
MaxBank == 2

BankTopic(i) == IF i % 2 = 1 THEN "Algebra" ELSE ""

BankContent ==
    {[multiple_choice_questions |->
        [i \in 1..nmc |-> [question |-> <<"mc", i>>, options |-> NumOptions,
                           correct_answer |-> 0, topic |-> BankTopic(i)]],
      multi_select_questions |->
        [i \in 1..nms |-> [question |-> <<"ms", i>>, options |-> NumOptions,
                           correct_answers |-> <<1, 0>>, topic |-> BankTopic(i)]],
      true_false_questions |->
        [i \in 1..ntf |-> [question |-> <<"tf", i>>, correct_answer |-> TRUE,
                           topic |-> BankTopic(i)]],
      short_answer_questions |->
        [i \in 1..nsa |-> [question |-> <<"sa", i>>, topic |-> BankTopic(i)]]] :
     nmc \in 0..MaxBank, nms \in 0..MaxBank, ntf \in 0..MaxBank, nsa \in 0..MaxBank}

InitBank ==
    /\ processedContent \in {{content} : content \in BankContent}
    /\ quizState = {}
    /\ page = "quiz"
    /\ currentIndex = 0
    /\ selectedAnswer = Null
    /\ selectedAnswers = <<>>
    /\ showFeedback = FALSE
    /\ answers = <<>>
    /\ startTime = 0
    /\ questionStartTime = 0
    /\ correctStreak = 0
    /\ statistics = {}
    /\ performanceAnalysis = {}
    /\ isSubmitting = FALSE
    /\ abandonedRequests = 0
    /\ requestAbandoned = FALSE
    /\ selectedFile = {}
    /\ documentPreview = {1}
    /\ previewRequests = {}
    /\ drops = 1
    /\ uploads = 1
    /\ sessions = 1
    /\ completions = 0

NextBank ==
    \/ SelectAny
    \/ ClickSubmit
    \/ ClickNext

SpecBank == InitBank /\ [][NextBank]_vars

\* ------------------------------------------------------------------------
\* The upload page: up to MaxFiles files are dropped, one after the other,
\* while the previews of earlier ones may still be in flight, and one document
\* is processed.
MaxFiles == 3

NextHome ==
    \/ OnDrop(MaxFiles)
    \/ \E file \in previewRequests : PreviewResolved(file)
    \/ \E file \in previewRequests : PreviewFailed(file)
    \/ ClearPreview
    \/ GenerateQuiz(UserContent, MaxUploads)

SpecHome == Init /\ [][NextHome]_vars

\* ========================================================================
\* Properties
\* ========================================================================
Range(seq) == {seq[i] : i \in 1..Len(seq)}

RECURSIVE SumTotals(_)
SumTotals(entries) ==
    IF entries = <<>> THEN 0 ELSE entries[1].total + SumTotals(Tail(entries))

RECURSIVE SumCorrects(_)
SumCorrects(entries) ==
    IF entries = <<>> THEN 0 ELSE entries[1].correct + SumCorrects(Tail(entries))

\* The number of consecutive correct answers at the end of a list.
RECURSIVE TrailingCorrect(_)
TrailingCorrect(list) ==
    IF list = <<>> THEN 0
    ELSE IF list[Len(list)].isCorrect
      THEN 1 + TrailingCorrect(SubSeq(list, 1, Len(list) - 1))
    ELSE 0

\* The step in which handleNext stores the result of the quiz.
CompletionStep == completions' = completions + 1

\* The step in which handleAnswer commits an answer.
SubmitStep == page = "quiz" /\ page' = "quiz" /\ Len(answers') > Len(answers)

\* C1: the score that the completing advance() stores is
\* round(100 * correctCount / totalQuestions), correctCount being the number of
\* committed answers with isCorrect = true.
C1_ScoreAtCompletion ==
    [][CompletionStep =>
         \A st \in quizState' :
           st.score = RoundPercent(CountCorrect(answers), Len(allQuestions))]_vars

\* C2: a committed multi-select answer is correct iff the set of selected
\* indices equals the set of indices in correct_answers.
C2_MultiSelectSetEquality ==
    \A i \in 1..Len(answers) :
      answers[i].questionType = "multi_select" =>
        (answers[i].isCorrect <=>
           Range(answers[i].userAnswer.list) = Range(allQuestions[i].correct.list))

\* C3: while the feedback of the current question is shown, no step of the
\* mounted quiz changes the committed answers or the streak: there is no
\* second submit before advance().
C3_NoSecondSubmit ==
    [][(showFeedback /\ page' = "quiz") =>
         (answers' = answers /\ correctStreak' = correctStreak)]_vars

C3_Witness ==
    /\ page = "quiz"
    /\ showFeedback
    /\ Len(answers) = 1
    /\ correctStreak = 1
    /\ ~SubmitButtonRendered

\* C4: the quiz moves to the next question, or completes, only from a state in
\* which the current question has its committed answer.
C4_AdvanceNeedsAnswer ==
    [][((page = "quiz" /\ page' = "quiz" /\ currentIndex' # currentIndex) \/ CompletionStep) =>
         (/\ showFeedback
          /\ Len(answers) = currentIndex + 1
          /\ answers[currentIndex + 1].questionIndex = currentIndex)]_vars

C4_Witness ==
    /\ page = "quiz"
    /\ currentIndex = 1
    /\ Len(answers) = 1
    /\ ~showFeedback
    /\ ~NextButtonRendered

C6_TopicTotalsAddUp ==
    \A st \in statistics : \A q \in quizState :
      /\ SumTotals(st.topicPerformance) = Len(q.answers)
      /\ SumCorrects(st.topicPerformance) = CountCorrect(q.answers)

\* C7: the streak counter is the number of consecutive correct answers at the
\* end of the committed answer list.
C7_StreakIsTrailingCorrect == correctStreak = TrailingCorrect(answers)

C7_Witness ==
    /\ Len(answers) = 3
    /\ answers[1].isCorrect
    /\ ~answers[2].isCorrect
    /\ answers[3].isCorrect
    /\ correctStreak = 1

\* C8: the stored score equals the accuracy that the results statistics
\* recompute from the same answer list, rounded to the nearest integer.
C8_ScoreReproducible ==
    \A q \in quizState : \A st \in statistics : q.score = DisplayedScore(st)

\* C9: once the mounted quiz has stored its result, and until another quiz is
\* mounted, it stores nothing again: the stored record (answers, score,
\* endTime) stays as it is unless reset discards it.
C9_CompletedOnce ==
    [][(completions >= 1 /\ sessions' = sessions) =>
         (/\ completions' = completions
          /\ (quizState' = quizState \/ quizState' = {}))]_vars

C9_Witness ==
    /\ completions = 1
    /\ sessions = 2
    /\ quizState # {}
    /\ page = "home"

\* C10: committing an answer changes neither the question data of the bundle
\* nor the contents and order of the tentative multi-selection.
C10_EvaluationIsPure ==
    [][SubmitStep =>
         (processedContent' = processedContent /\ selectedAnswers' = selectedAnswers)]_vars

\* The sum over a list of answers of max(timeTaken, 0).
RECURSIVE SumClampedTime(_)
SumClampedTime(list) ==
    IF list = <<>> THEN 0
    ELSE (IF list[1].timeTaken > 0 THEN list[1].timeTaken ELSE 0) + SumClampedTime(Tail(list))

\* C11: the total time of the statistics is the sum over the committed answers
\* of max(timeTaken, 0): a clock reading at submit that is earlier than the
\* reading at presentation contributes 0, and the total is never negative.
C11_TotalTimeClamped ==
    \A st \in statistics : \A q \in quizState :
      /\ st.totalTimeTaken = SumClampedTime(q.answers)
      /\ st.totalTimeTaken >= 0

\* The step in which setProcessedContent stores a newly processed document.
UploadStep == uploads' = uploads + 1

\* The step in which resetState clears the store.
ResetStep == processedContent # {} /\ processedContent' = {}

\* C12: after resetState(), and after setProcessedContent() has stored a newly
\* processed document, the store holds no score or answers of a previous quiz.
C12_UploadDiscardsSession ==
    [][(UploadStep \/ ResetStep) => quizState' = {}]_vars

\* The selected option index lies within the options of the question.
InRange(question, value) ==
    IF question.type = "multiple_choice"
      THEN value.kind = "number" /\ value.num \in 0..(question.options - 1)
    ELSE IF question.type = "multi_select"
      THEN \A i \in 1..Len(value.list) : value.list[i] \in 0..(question.options - 1)
    ELSE TRUE

ContentValid(content) ==
    /\ \A i \in 1..Len(content.multiple_choice_questions) :
         LET q == content.multiple_choice_questions[i]
         IN q.options > 0 /\ q.correct_answer \in 0..(q.options - 1)
    /\ \A i \in 1..Len(content.multi_select_questions) :
         LET q == content.multi_select_questions[i]
         IN /\ q.options > 0
            /\ \A j \in 1..Len(q.correct_answers) : q.correct_answers[j] \in 0..(q.options - 1)

\* C14: a bundle with a question without options, or with a correct index out
\* of the bounds of its options, starts no session: no question of it is
\* presented.
C14_MalformedContentRejected ==
    QuizRendered => \A content \in processedContent : ContentValid(content)

\* The step in which submitQuizResults sends the request.
IssueStep == ~isSubmitting /\ isSubmitting'

\* The step in which the request of the mounted Results page fails.
FailureStep ==
    /\ page = "results" /\ page' = "results"
    /\ isSubmitting /\ ~isSubmitting'
    /\ performanceAnalysis' = {}

\* The step in which a request, of a mounted page or an abandoned one, settles.
ResponseStep ==
    \/ page = "results" /\ page' = "results" /\ isSubmitting /\ ~isSubmitting'
    \/ abandonedRequests' < abandonedRequests

\* C15: a failed call to the recommendation service does not propagate and
\* leaves score and statistics as they are, and the results page then carries
\* a warning that the analysis is unavailable.
C15_FailureWarns ==
    [][FailureStep =>
         (/\ quizState' = quizState
          /\ statistics' = statistics
          /\ "Analysis unavailable" \in AnalysisSection(performanceAnalysis', isSubmitting'))]_vars

\* C16: a response of the recommendation service, whatever it is and whenever
\* it arrives, leaves the stored answers and score and the statistics as they
\* are; the request is sent only with a completed quiz stored and its
\* statistics computed.
C16_ResponseIsAnnotation ==
    [][/\ ResponseStep =>
            (/\ quizState' = quizState
             /\ statistics' = statistics
             /\ processedContent' = processedContent)
       /\ IssueStep => (quizState' # {} /\ statistics' # {})]_vars

C16_Witness ==
    /\ page = "results"
    /\ statistics # {}
    /\ \E a \in performanceAnalysis : \E q \in quizState : a.overall_score # q.score
    /\ ~isSubmitting

\* C17: a request left in flight by navigating away or by reset is abandoned:
\* its settling changes no state, and no request is sent again for the stored
\* session.
C17_AbandonedNotReissued ==
    [][/\ abandonedRequests' < abandonedRequests =>
            UNCHANGED <<processedContent, quizState, page, quizVars, statistics,
                        performanceAnalysis, isSubmitting>>
       /\ (IssueStep /\ quizState' = quizState) => ~requestAbandoned]_vars

\* The topic under which answer i of a stored quiz belongs: that of the
\* question its questionIndex designates in the merged bank, or "General".
DesignatedTopic(state, content, i) ==
    TopicOf(AllQuestionsOf(content), state.answers[i].questionIndex + 1)

AnswersOfTopic(state, content, topic) ==
    {i \in 1..Len(state.answers) : DesignatedTopic(state, content, i) = topic}

\* C18: every committed answer is counted under the topic of the question that
\* its questionIndex designates in the merged bank, "General" when that
\* question has no topic: each such topic has an entry whose total and correct
\* are the numbers of its answers and of its correct answers.
C18_CountedUnderDesignatedTopic ==
    \A st \in statistics : \A q \in quizState : \A c \in processedContent :
      \A i \in 1..Len(q.answers) :
        LET topic == DesignatedTopic(q, c, i)
        IN \E k \in 1..Len(st.topicPerformance) :
             /\ st.topicPerformance[k].topic = topic
             /\ st.topicPerformance[k].total = Cardinality(AnswersOfTopic(q, c, topic))
             /\ st.topicPerformance[k].correct =
                  Cardinality({j \in AnswersOfTopic(q, c, topic) : q.answers[j].isCorrect})

\* The position of the first answer of a topic in the answer list.
FirstOccurrence(state, content, topic) ==
    CHOOSE i \in AnswersOfTopic(state, content, topic) :
      \A j \in AnswersOfTopic(state, content, topic) : i <= j

\* C19: topicPerformance enumerates its topics in the order in which each
\* first occurs in the answer list, and weakTopics keeps that relative order.
C19_FirstSeenOrder ==
    \A st \in statistics : \A q \in quizState : \A c \in processedContent :
      /\ \A i, j \in 1..Len(st.topicPerformance) :
           i < j => FirstOccurrence(q, c, st.topicPerformance[i].topic)
                      < FirstOccurrence(q, c, st.topicPerformance[j].topic)
      /\ \A i, j \in 1..Len(st.weakTopics) :
           i < j => FirstOccurrence(q, c, st.weakTopics[i])
                      < FirstOccurrence(q, c, st.weakTopics[j])

\* C20: the accuracy of the statistics is correctCount / totalAnswered * 100
\* rounded to the nearest integer, 0 for an empty answer list, and no figure
\* of the results divides by an answer count of zero.
C20_AccuracyRounded ==
    \A st \in statistics : \A q \in quizState :
      /\ Len(q.answers) > 0 =>
           st.accuracy.num =
             RoundPercent(CountCorrect(q.answers), Len(q.answers)) * st.accuracy.den
      /\ Len(q.answers) = 0 => st.accuracy.num = 0
      /\ AverageTime(st, q) # NaN


\* A list of answers in which the answer at position i (from 0) is the answer
\* to question i.
InQuestionOrder(list) == \A i \in 1..Len(list) : list[i].questionIndex = i - 1

\* C21: the questionIndex values of the committed answers are strictly
\* increasing, the answer at position i has questionIndex i, so that no question
\* has two answers, and the list of a session is only ever appended to (a
\* committed answer is never changed or removed while the quiz is mounted).
C21_AnswersInQuestionOrder ==
    /\ [](/\ InQuestionOrder(answers)
          /\ \A i, j \in 1..Len(answers) :
               i < j => answers[i].questionIndex < answers[j].questionIndex
          /\ \A q \in quizState : InQuestionOrder(q.answers))
    /\ [][page = "quiz" /\ page' = "quiz" =>
            \/ answers' = answers
            \/ /\ Len(answers') = Len(answers) + 1
               /\ SubSeq(answers', 1, Len(answers)) = answers]_vars
    /\ [][CompletionStep => \A q \in quizState' : q.answers = answers]_vars

\* Three answers are committed, one to each question of a three-question bank.
C21_Witness ==
    /\ page = "quiz"
    /\ Len(allQuestions) = 3
    /\ Len(answers) = 3
    /\ showFeedback


\* The states of a session: the question at currentIndex is presented without a
\* selection, has a tentative selection, or shows its feedback; or the result
\* is stored and the results page is open.
HasSelection == selectedAnswer # Null \/ Len(selectedAnswers) > 0
Presenting == QuizRendered /\ ~showFeedback /\ ~HasSelection
AwaitingSubmit == QuizRendered /\ ~showFeedback /\ HasSelection
ShowingFeedback == QuizRendered /\ showFeedback
Completed == page = "results" /\ completions = 1 /\ quizState # {}

\* C22: with a bank of n >= 1 questions, a user who keeps selecting, submitting
\* and advancing reaches Completed; every question index 0..n-1 goes through
\* Presenting, AwaitingSubmit and ShowingFeedback in this order, one submit and
\* one advance each; currentIndex stays in 0..n-1; at completion the answer
\* list holds n answers and n advances have been made.
C22_UserReachesCompleted ==
    /\ [](QuizRendered =>
            /\ currentIndex \in 0..(Len(allQuestions) - 1)
            /\ Len(answers) = currentIndex + (IF showFeedback THEN 1 ELSE 0))
    /\ [][/\ Presenting => (Presenting' \/ AwaitingSubmit') /\ currentIndex' = currentIndex
          /\ AwaitingSubmit =>
               /\ Presenting' \/ AwaitingSubmit' \/ ShowingFeedback'
               /\ currentIndex' = currentIndex
               /\ ShowingFeedback' => Len(answers') = Len(answers) + 1
          /\ ShowingFeedback =>
               IF currentIndex < Len(allQuestions) - 1
                 THEN Presenting' /\ currentIndex' = currentIndex + 1
                 ELSE /\ Completed'
                      /\ \A q \in quizState' :
                           /\ Len(q.answers) = Len(allQuestions)
                           /\ q.currentQuestion + 1 = Len(allQuestions)]_vars
    /\ (Presenting /\ currentIndex = 0) ~> Completed

\* The user is at the feedback of the last question of a three-question bank.
C22_Witness ==
    /\ ShowingFeedback
    /\ Len(allQuestions) = 3
    /\ currentIndex = 2


\* C23: selecting an answer changes the tentative selection only: a step of the
\* mounted quiz that neither submits nor advances leaves the committed answers,
\* the streak, currentIndex, the stored result (the score) and the bundle as
\* they are; and while the feedback is shown, the selection does not change.
C23_SelectChangesSelectionOnly ==
    [][/\ (page = "quiz" /\ page' = "quiz" /\ ~showFeedback /\ ~showFeedback') =>
            UNCHANGED <<answers, correctStreak, currentIndex, quizState,
                        processedContent, completions>>
       /\ (page = "quiz" /\ page' = "quiz" /\ showFeedback /\ showFeedback') =>
            UNCHANGED <<selectedAnswer, selectedAnswers>>
       /\ SelectAny =>
            /\ ~showFeedback
            /\ UNCHANGED <<answers, correctStreak, currentIndex, quizState, showFeedback>>]_vars

\* The feedback of the second question is shown, with the option that was
\* selected for it after the first answer was committed.
C23_Witness ==
    /\ ShowingFeedback
    /\ currentIndex = 1
    /\ Len(answers) = 2
    /\ HasSelection


\* C24: the bank is the multiple-choice questions, then the multi-select
\* questions, then the true/false questions of the bundle, each kind in the
\* bundle's order, every entry with its kind and its index within the kind; no
\* short-answer question is in it; the sequence of questions stays the same as
\* long as the bundle is in the store; and it is, position by position, the
\* sequence that the results statistics index.
C24_BankIsConcatenation ==
    /\ [](\A content \in processedContent :
            LET mc == content.multiple_choice_questions
                ms == content.multi_select_questions
                tf == content.true_false_questions
            IN /\ Len(allQuestions) = Len(mc) + Len(ms) + Len(tf)
               /\ \A p \in 1..Len(allQuestions) :
                    /\ p <= Len(mc) =>
                         /\ allQuestions[p].type = "multiple_choice"
                         /\ allQuestions[p].index = p - 1
                         /\ allQuestions[p].data = mc[p]
                    /\ (Len(mc) < p /\ p <= Len(mc) + Len(ms)) =>
                         /\ allQuestions[p].type = "multi_select"
                         /\ allQuestions[p].index = p - Len(mc) - 1
                         /\ allQuestions[p].data = ms[p - Len(mc)]
                    /\ Len(mc) + Len(ms) < p =>
                         /\ allQuestions[p].type = "true_false"
                         /\ allQuestions[p].index = p - Len(mc) - Len(ms) - 1
                         /\ allQuestions[p].data = tf[p - Len(mc) - Len(ms)]
                    /\ allQuestions[p].data.question[1] # "sa"
               /\ Len(ResultsQuestions(content)) = Len(allQuestions)
               /\ \A p \in 1..Len(allQuestions) :
                    ResultsQuestions(content)[p] = allQuestions[p].data)
    /\ [][(processedContent # {} /\ processedContent' # {}) =>
            /\ Len(allQuestions') = Len(allQuestions)
            /\ \A p \in 1..Len(allQuestions) :
                 /\ allQuestions'[p].type = allQuestions[p].type
                 /\ allQuestions'[p].index = allQuestions[p].index
                 /\ allQuestions'[p].data.question = allQuestions[p].data.question]_vars

\* The last question of a bank of two questions of each kind is presented; the
\* bundle holds two short-answer questions as well.
C24_Witness ==
    /\ QuizRendered
    /\ currentIndex = 3 * MaxBank - 1
    /\ Len(answers) = 3 * MaxBank - 1
    /\ currentQuestion.data.question = <<"tf", MaxBank>>
    /\ \A content \in processedContent : Len(content.short_answer_questions) = MaxBank


\* The committed answers of a list agree with the bundle: a multiple-choice
\* answer is correct exactly when it is the number correct_answer, a true/false
\* answer exactly when it is the boolean correct_answer.
SingleAnswersJudged(list, questions) ==
    \A i \in 1..Len(list) :
      LET a == list[i]
          q == questions[a.questionIndex + 1]
      IN /\ a.questionType = "multiple_choice" =>
              (a.isCorrect <=> (a.userAnswer.kind = "number"
                                  /\ a.userAnswer.num = q.correct_answer))
         /\ a.questionType = "true_false" =>
              (a.isCorrect <=> (a.userAnswer.kind = "boolean"
                                  /\ a.userAnswer.bool = q.correct_answer))

\* C25: a multiple-choice answer is recorded correct iff the selected index is
\* the question's correct_answer, a true/false answer iff the selected boolean
\* is the question's correct_answer; and when the next question is presented
\* nothing is selected: no selection carries over.
C25_SingleAnswerJudgedByEquality ==
    /\ [](\A content \in processedContent :
            /\ SingleAnswersJudged(answers, ResultsQuestions(content))
            /\ \A q \in quizState : SingleAnswersJudged(q.answers, ResultsQuestions(content)))
    /\ [][(page = "quiz" /\ page' = "quiz" /\ currentIndex' # currentIndex) =>
            /\ selectedAnswer' = Null
            /\ selectedAnswers' = <<>>
            /\ ~showFeedback']_vars

\* A three-question quiz whose multiple-choice answer was judged correct and
\* whose true/false answer was judged incorrect.
C25_Witness ==
    /\ page = "quiz"
    /\ Len(answers) = 3
    /\ answers[1].questionType = "multiple_choice"
    /\ answers[1].isCorrect
    /\ answers[3].questionType = "true_false"
    /\ ~answers[3].isCorrect


\* There is no bundle, or the three question arrays of the bundle are empty.
EmptyBundle ==
    \A content \in processedContent :
      /\ content.multiple_choice_questions = <<>>
      /\ content.multi_select_questions = <<>>
      /\ content.true_false_questions = <<>>

\* C26: with no bundle, or a bundle whose multiple-choice, multi-select and
\* true/false arrays are all empty, no session starts: no question is
\* presented, nothing can be selected, submitted or advanced, no answer is
\* committed and no result is stored.
C26_EmptyBankStartsNoSession ==
    EmptyBundle =>
      /\ ~QuizRendered
      /\ answers = <<>>
      /\ ~showFeedback
      /\ selectedAnswer = Null /\ selectedAnswers = <<>>
      /\ quizState = {}
      /\ statistics = {}
      /\ ~ENABLED SelectAny
      /\ ~ENABLED ClickSubmit
      /\ ~ENABLED ClickNext

\* The quiz page is open a second time on a bundle without questions.
C26_Witness ==
    /\ page = "quiz"
    /\ processedContent # {}
    /\ EmptyBundle
    /\ sessions = 2


\* C27: the score of a stored (completed) session is an integer from 0 to 100.
C27_ScoreIsPercentage ==
    \A q \in quizState : q.score \in 0..100


\* The selection after the toggles of a list, made one after the other.
RECURSIVE ToggleAll(_, _)
ToggleAll(selection, toggles) ==
    IF toggles = <<>> THEN selection
    ELSE ToggleAll(Toggle(selection, Head(toggles)), Tail(toggles))

\* C28: a presented multi-select question with at least one correct index can
\* be answered correctly: some sequence of toggles of its option buttons, from
\* the empty selection, gives a selection that handleAnswer judges correct.
C28_MultiSelectAnswerable ==
    (QuizRendered /\ currentQuestion.type = "multi_select"
       /\ Len(currentQuestion.correct.list) >= 1) =>
      \E toggles \in SeqsUpTo({index \in OptionIndices :
                                 OptionRendered(currentQuestion, index)}, NumOptions) :
        /\ Len(ToggleAll(<<>>, toggles)) > 0
        /\ IsCorrect(currentQuestion, Null, ToggleAll(<<>>, toggles))


\* C29: the attempt record of a completed session is sent to the recommendation
\* service at most once.  The step that completes a session mounts the results
\* page, which sends the record, so the claim is that no other step sends one.
C29_AttemptSentOnce ==
    [][IssueStep => CompletionStep]_vars


\* C30: on the upload page, once no preview request is outstanding, the stored
\* preview is the preview of the selected file, or there is none.
C30_PreviewOfSelectedFile ==
    (page = "home" /\ previewRequests = {} /\ selectedFile # {}) =>
      documentPreview \subseteq selectedFile

====
